---- MODULE Spec2Model ----
(***************************************************************************)
(* Lumina journal: the structured record store (localStorage slots), the   *)
(* binary object store (IndexedDB "media") and the full-archive export /   *)
(* import routine of services/storage.ts and services/db.ts, the entry     *)
(* editor and the dashboard handlers that use them, and the retry of       *)
(* generateJournalVideo in services/gemini.ts.                             *)
(***************************************************************************)
EXTENDS Integers, Sequences, FiniteSets, TLC

(* ---------------------------------------------------------------------- *)
(* Bounds                                                                  *)
(* ---------------------------------------------------------------------- *)
\* entry ids and list length of the record-store specification
StoreEntryIds == 3
StoreContents == 2
\* blob ids (object-store keys)
NumBlobIds == 2
\* cached reports that the report specification can generate
NumReports == 2
\* db.ts calls that can be suspended at the same time
MaxCalls == 2
\* entries the editor specification stores
MaxEditorEntries == 2
\* polls of the video operation before it is done
MaxPolls == 2
\* calendar days the clock and the entry dates range over, and the longest
\* collection the streak is computed of
StreakDays == 4
MaxStreakEntries == 3

NoRef == 0
BlobIds == 1..NumBlobIds
\* Blob contents: what the editor stores, and what an archive of other
\* origin carries; NoBlob is the absent value of a key the store lacks.
NoBlob == "none"
OwnData == {"own"}
ForeignData == {"foreign"}

(* ---------------------------------------------------------------------- *)
(* JSON values and slot texts                                              *)
(* ---------------------------------------------------------------------- *)
\* A JSON value: t is its type, v the elements of an array, n a report's
\* identity.  "undefined" is a property that the object does not have.
JUndefined == [t |-> "undefined", v |-> <<>>, n |-> 0]
JNull == [t |-> "null", v |-> <<>>, n |-> 0]
JObject == [t |-> "object", v |-> <<>>, n |-> 0]
JArray(s) == [t |-> "array", v |-> s, n |-> 0]
JReport(r) == [t |-> "report", v |-> <<>>, n |-> r]

\* JavaScript truthiness of a JSON value: arrays (also the empty one) and
\* objects are truthy, null and undefined are falsy.
Truthy(x) == x.t \notin {"undefined", "null"}

\* What a localStorage slot holds: nothing (getItem gives null), text that
\* is not JSON, or the text of a JSON value.
Absent == [kind |-> "absent", val |-> JNull]
Garbage == [kind |-> "text", val |-> JNull]
JsonText(x) == [kind |-> "json", val |-> x]

\* JSON.stringify: undefined has no JSON text; setItem would then store the
\* word "undefined", which does not parse.
JSONstringify(x) == IF x.t = "undefined" THEN Garbage ELSE JsonText(x)

\* JSON.parse: throws a SyntaxError on text that is not JSON.
JSONparse(text) ==
  IF text.kind = "json" THEN [threw |-> FALSE, val |-> text.val]
  ELSE [threw |-> TRUE, val |-> JNull]

(* ---------------------------------------------------------------------- *)
(* Entries                                                                 *)
(* ---------------------------------------------------------------------- *)
\* JournalMedia: blobId is NoRef when the item has none, externalUrl is 0
\* when the item has none.
MediaItems == { m \in [blobId : BlobIds \cup {NoRef}, externalUrl : 0..1] :
                  m.blobId # NoRef \/ m.externalUrl # 0 }
\* an entry of the model carries no media item or one
MediaLists == { <<>> } \cup { <<m>> : m \in MediaItems }

\* JournalEntry, reduced to the fields the storage service reads (id,
\* reflection.imageId, media[].blobId) and one payload field.
JournalEntry(i, c, img, med) ==
  [id |-> i, content |-> c, imageId |-> img, media |-> med]

\* inputs of the record-store specification: entries without attachments
StoreEntries ==
  { JournalEntry(i, c, NoRef, <<>>) : i \in 1..StoreEntryIds, c \in 1..StoreContents }

\* inputs of the specification of the record store with backups: one entry
\* for every id
UniqueEntries == { JournalEntry(i, 1, NoRef, <<>>) : i \in 1..StoreEntryIds }

\* inputs of the report specification: one plain entry
ReportEntries == { JournalEntry(1, 1, NoRef, <<>>) }

\* inputs of the backup specification: one entry id, every combination of
\* reflection image and media list
BackupEntries ==
  { JournalEntry(1, 1, img, med) : img \in BlobIds \cup {NoRef}, med \in MediaLists }

\* inputs of the restore specification: one entry id, with or without a
\* reflection image
RestoreEntries ==
  { JournalEntry(1, 1, img, <<>>) : img \in BlobIds \cup {NoRef} }

(* ---------------------------------------------------------------------- *)
(* State                                                                   *)
(* ---------------------------------------------------------------------- *)
VARIABLES
  ls_entries,   \* localStorage[STORAGE_KEY]
  ls_analysis,  \* localStorage[ANALYSIS_KEY]
  ls_journey,   \* localStorage[JOURNEY_REPORT_KEY]
  idb,          \* object store "media": blob id -> content, NoBlob if absent
  file,         \* the archive the last successful export has downloaded
  exported,     \* history: the application state when file was exported
  exp,          \* exportFullBackup in progress
  imp,          \* importFullBackup in progress
  inflight,     \* blob writes started by an import and not yet settled
  last,         \* history: the operation that acted last and its outcome
  dbPromise,    \* db.ts: the module-level promise of the open database
  opens,        \* history: how many times indexedDB.open has been invoked
  dbq,          \* db.ts calls suspended at "await getDB()", in call order
  dbres,        \* how the db.ts call that settled last has settled
  ref,          \* history: the reference store (key -> content) of the calls
  ed,           \* EntryEditor component state
  now,          \* the system clock, in milliseconds
  streak,       \* what the dashboard shows: calculateStreak(entries)
  ls_draft,     \* localStorage[DRAFT_KEY]
  vid           \* generateJournalVideo in progress

\* the state of the database layer, of the editor and of the dashboard
aux == <<dbPromise, opens, dbq, dbres, ref, ed, now, streak, ls_draft, vid>>

vars == <<ls_entries, ls_analysis, ls_journey, idb, file, exported, exp, imp,
          inflight, last, aux>>

NoBlobs == [b \in BlobIds |-> NoBlob]

\* getEntries(): absent slot or parse failure degrade to the empty list.
getEntriesMissingCatch(slot) ==
  IF slot.kind = "absent" THEN [raised |-> FALSE, val |-> JArray(<<>>)]
  ELSE LET p == JSONparse(slot) IN
       IF p.threw THEN [raised |-> TRUE, val |-> JNull]
       ELSE [raised |-> FALSE, val |-> p.val]

getEntries(slot) ==
  IF slot.kind = "absent" THEN [raised |-> FALSE, val |-> JArray(<<>>)]
  ELSE LET p == JSONparse(slot) IN
       IF p.threw THEN [raised |-> FALSE, val |-> JArray(<<>>)]
       ELSE [raised |-> FALSE, val |-> p.val]

\* getPatternAnalysis() / getLifeJourneyAnalysis(): null when the slot is
\* absent or does not parse.
getReport(slot) ==
  IF slot.kind = "absent" THEN JNull
  ELSE LET p == JSONparse(slot) IN IF p.threw THEN JNull ELSE p.val

getPatternAnalysis == getReport(ls_analysis)
getLifeJourneyAnalysis == getReport(ls_journey)

\* Array.prototype.findIndex(e => e.id === id), 1-based, 0 when none.
findIndexNone(s, id) == 0

findIndex(s, id) ==
  IF \E k \in 1..Len(s) : s[k].id = id
  THEN CHOOSE k \in 1..Len(s) : s[k].id = id /\ \A j \in 1..(k-1) : s[j].id # id
  ELSE 0

\* the list saveEntry writes back
upsertAppend(s, entry) ==
  LET k == findIndex(s, entry.id) IN
  IF k > 0 THEN [s EXCEPT ![k] = entry] ELSE Append(s, entry)

upsert(s, entry) ==
  LET k == findIndex(s, entry.id) IN
  IF k > 0 THEN [s EXCEPT ![k] = entry] ELSE <<entry>> \o s

\* Array.prototype.filter(e => e.id !== id)
RECURSIVE filterOutFirst(_, _)
filterOutFirst(s, id) ==
  IF s = <<>> THEN <<>>
  ELSE IF Head(s).id = id THEN Tail(s)
       ELSE <<Head(s)>> \o filterOutFirst(Tail(s), id)

RECURSIVE filterOut(_, _)
filterOut(s, id) ==
  IF s = <<>> THEN <<>>
  ELSE IF Head(s).id = id THEN filterOut(Tail(s), id)
       ELSE <<Head(s)>> \o filterOut(Tail(s), id)

\* the blob ids that some entry of the list s references, through its
\* reflection image or through a media item
BlobRefs(s) ==
  { b \in BlobIds : \E k \in 1..Len(s) :
      \/ s[k].imageId = b
      \/ \E j \in 1..Len(s[k].media) : s[k].media[j].blobId = b }

NoSnapshot ==
  [valid |-> FALSE, entries |-> <<>>, analysis |-> JNull, journey |-> JNull,
   blobs |-> NoBlobs]
\* rejected: the Promise.all join of the export has rejected; faulted is
\* history: a getMediaBlob of this export met a storage error
ExpIdle ==
  [pc |-> "idle", entries |-> <<>>, analysis |-> JNull, journey |-> JNull,
   pending |-> {}, zip |-> NoBlobs, rejected |-> FALSE, faulted |-> FALSE]
NoPre ==
  [entries |-> Absent, analysis |-> Absent, journey |-> Absent, draft |-> Absent,
   idb |-> NoBlobs]
NoFile ==
  [readable |-> FALSE, origin |-> "none",
   doc |-> [kind |-> "missing", entries |-> JUndefined, analysis |-> JUndefined,
            journeyReport |-> JUndefined],
   media |-> NoBlobs]
Document(e, a, j) ==
  [kind |-> "object", entries |-> e, analysis |-> a, journeyReport |-> j]
\* pc, rejected (the Promise.all join has rejected) and archive (the file
\* being imported) are the routine's own state; pre, faults and written
\* are history: the stores when the import started, the storage faults
\* that occurred during it, and the blob ids whose write succeeded before
\* it resolved
ImpIdle ==
  [pc |-> "idle", rejected |-> FALSE, archive |-> NoFile, pre |-> NoPre,
   faults |-> {}, written |-> {}]
NoEntry == [id |-> 0, content |-> 0, imageId |-> NoRef, media |-> <<>>]
\* history record: the operation, its outcome, its argument and what the
\* entry slot held when the operation started (for saveEntry the kind of
\* its text, for deleteEntry whether no, one or many entries had the id);
\* kept for saveEntry, deleteEntry, export, import and the two report
\* generations (arg is then the report the dashboard shows), every other
\* step is recorded as "step"
Did(op, res, arg, entry) ==
  IF op \in {"saveEntry", "deleteEntry", "export", "import",
             "handleDetectPatterns", "handleGenerateJourney"}
  THEN [op |-> op, res |-> res, arg |-> arg, entry |-> entry,
        was |-> IF op = "saveEntry" THEN ls_entries.kind
                ELSE IF op = "deleteEntry"
                THEN LET s == getEntries(ls_entries).val.v
                         n == Cardinality({ k \in 1..Len(s) : s[k].id = arg }) IN
                     IF n = 0 THEN "none" ELSE IF n = 1 THEN "one" ELSE "many"
                ELSE "absent"]
  ELSE [op |-> "step", res |-> "ok", arg |-> 0, entry |-> NoEntry, was |-> "absent"]

\* no db.ts call has settled yet
NoResult == [op |-> "none", key |-> 0, blob |-> NoBlob, res |-> "none",
             val |-> NoBlob, expect |-> NoBlob, awaits |-> 0]

\* no editor is mounted: the media list of the session is not tracked, its
\* outcome is the entry that saveEntry receives
Unmounted == [mounted |-> FALSE, initialEntry |-> 0, createdAt |-> 0,
              initialContent |-> 0, content |-> 0,
              analysisResult |-> "null", mediaItems |-> <<>>]

\* the draft document of saveDraft: content, entryId (0 for null) and the
\* timestamp
JDraft(c, e, t) == [t |-> "draft", v |-> <<e, t>>, n |-> c]

\* getDraft(): null when the slot is absent or does not parse
getDraft(slot) ==
  IF slot.kind = "absent" THEN JNull
  ELSE LET p == JSONparse(slot) IN IF p.threw THEN JNull ELSE p.val

\* generateJournalVideo has not been called.  pc is the await the current
\* performGeneration is suspended at, aistudio whether window.aistudio
\* exists; attempts, polls, keyDialogs, firstError, firstStage and
\* secondError are history: the calls of performGeneration, the polls of the
\* current one, the calls of openSelectKey, the error and the await the
\* first performGeneration failed with, the error the second failed with;
\* result and error are what the caller gets
NoVideo == [pc |-> "idle", aistudio |-> FALSE, attempts |-> 0, polls |-> 0,
            keyDialogs |-> 0, firstError |-> "none", firstStage |-> "none",
            secondError |-> "none", result |-> "none", error |-> "none"]

\* No export or import is running and every blob write has settled: the
\* user's next operation starts from here.
Idle == exp.pc = "idle" /\ imp.pc = "idle" /\ inflight = NoBlobs

\* A browser profile before the application has stored anything; the entry
\* slot may also hold text that is not JSON.
Init ==
  /\ ls_entries \in {Absent, Garbage}
  /\ ls_analysis = Absent
  /\ ls_journey = Absent
  /\ idb = NoBlobs
  /\ file = NoFile
  /\ exported = NoSnapshot
  /\ exp = ExpIdle
  /\ imp = ImpIdle
  /\ inflight = NoBlobs
  /\ last = [op |-> "init", res |-> "ok", arg |-> 0, entry |-> NoEntry, was |-> "absent"]
  /\ dbPromise = "null"
  /\ opens = 0
  /\ dbq = <<>>
  /\ dbres = NoResult
  /\ ref = NoBlobs
  /\ ed = Unmounted
  /\ now = 0
  /\ streak = 0
  /\ ls_draft = Absent
  /\ vid = NoVideo

(* ---------------------------------------------------------------------- *)
(* Record store operations                                                 *)
(* ---------------------------------------------------------------------- *)
\* saveEntry(entry).  maxLen caps the list length of the specification.
saveEntry(entry, maxLen) ==
  /\ Idle
  /\ LET got == getEntries(ls_entries) IN
     IF got.raised \/ got.val.t # "array"
     THEN \* getEntries raised, or entries.findIndex is not a function
          /\ last' = Did("saveEntry", "raised", entry.id, entry)
          /\ UNCHANGED ls_entries
     ELSE /\ findIndex(got.val.v, entry.id) > 0 \/ Len(got.val.v) < maxLen
          /\ ls_entries' = JSONstringify(JArray(upsert(got.val.v, entry)))
          /\ last' = Did("saveEntry", "ok", entry.id, entry)
  /\ imp' = ImpIdle
  /\ UNCHANGED <<ls_analysis, ls_journey, idb, file, exported, exp, inflight>>
  /\ UNCHANGED aux

\* deleteEntry(id)
deleteEntry(id) ==
  /\ Idle
  /\ LET got == getEntries(ls_entries) IN
     IF got.raised \/ got.val.t # "array"
     THEN /\ last' = Did("deleteEntry", "raised", id, NoEntry)
          /\ UNCHANGED ls_entries
     ELSE /\ ls_entries' = JSONstringify(JArray(filterOut(got.val.v, id)))
          /\ last' = Did("deleteEntry", "ok", id, NoEntry)
  /\ imp' = ImpIdle
  /\ UNCHANGED <<ls_analysis, ls_journey, idb, file, exported, exp, inflight>>
  /\ UNCHANGED aux

\* savePatternAnalysis(analysis)
savePatternAnalysis(r) ==
  /\ Idle
  /\ ls_analysis' = JSONstringify(JReport(r))
  /\ last' = Did("savePatternAnalysis", "ok", r, NoEntry)
  /\ imp' = ImpIdle
  /\ UNCHANGED <<ls_entries, ls_journey, idb, file, exported, exp, inflight>>
  /\ UNCHANGED aux

\* saveLifeJourneyAnalysis(analysis), called by handleGenerateJourney
saveLifeJourneyAnalysis(r) ==
  /\ Idle
  /\ ls_journey' = JSONstringify(JReport(r))
  /\ last' = Did("saveLifeJourneyAnalysis", "ok", r, NoEntry)
  /\ imp' = ImpIdle
  /\ UNCHANGED <<ls_entries, ls_analysis, idb, file, exported, exp, inflight>>
  /\ UNCHANGED aux

\* handleDetectPatterns of the dashboard: detectPatterns(entries) resolves
\* with report r (ok) and the dashboard shows it, or rejects and the error
\* is logged; no slot is written
handleDetectPatterns(r, ok) ==
  /\ Idle
  /\ LET got == getEntries(ls_entries) IN got.val.t = "array" /\ got.val.v # <<>>
  /\ last' = Did("handleDetectPatterns", IF ok THEN "ok" ELSE "failed", r, NoEntry)
  /\ imp' = ImpIdle
  /\ UNCHANGED <<ls_entries, ls_analysis, ls_journey, idb, file, exported, exp, inflight>>
  /\ UNCHANGED aux

\* handleGenerateJourney of the dashboard: generateLifeJourneyAnalysis
\* resolves with report r (ok), the dashboard shows it and
\* saveLifeJourneyAnalysis(r) stores it, or rejects and the error is logged
handleGenerateJourney(r, ok) ==
  /\ Idle
  /\ LET got == getEntries(ls_entries) IN got.val.t = "array" /\ got.val.v # <<>>
  /\ ls_journey' = IF ok THEN JSONstringify(JReport(r)) ELSE ls_journey
  /\ last' = Did("handleGenerateJourney", IF ok THEN "ok" ELSE "failed", r, NoEntry)
  /\ imp' = ImpIdle
  /\ UNCHANGED <<ls_entries, ls_analysis, idb, file, exported, exp, inflight>>
  /\ UNCHANGED aux

\* saveDraft(content, entryId): the draft slot is overwritten
saveDraft(content, entryId) ==
  /\ Idle
  /\ ls_draft' = JSONstringify(JDraft(content, entryId, now))
  /\ last' = Did("saveDraft", "ok", entryId, NoEntry)
  /\ imp' = ImpIdle
  /\ UNCHANGED <<ls_entries, ls_analysis, ls_journey, idb, file, exported, exp, inflight>>
  /\ UNCHANGED <<dbPromise, opens, dbq, dbres, ref, ed, now, streak, vid>>

\* clearDraft(): the draft slot is removed
clearDraft ==
  /\ Idle
  /\ ls_draft' = Absent
  /\ last' = Did("clearDraft", "ok", 0, NoEntry)
  /\ imp' = ImpIdle
  /\ UNCHANGED <<ls_entries, ls_analysis, ls_journey, idb, file, exported, exp, inflight>>
  /\ UNCHANGED <<dbPromise, opens, dbq, dbres, ref, ed, now, streak, vid>>

(* ---------------------------------------------------------------------- *)
(* calculateStreak                                                         *)
(* ---------------------------------------------------------------------- *)
\* the number of milliseconds the code takes for one day
MsPerDay == 86400000
HalfDay == MsPerDay \div 2

\* the instants (getTime() of createdAt, and of the clock) of the model:
\* midnight and noon of each day; local time has no offset and no DST shift
Instants == { d * MsPerDay + h : d \in 0..(StreakDays - 1), h \in {0, HalfDay} }

\* an entry with its creation instant
DatedEntry(i, t) ==
  [id |-> i, content |-> 1, imageId |-> NoRef, media |-> <<>>, createdAt |-> t]

\* every collection of up to MaxStreakEntries dated entries, in any order
DatedCollections ==
  { [k \in 1..n |-> DatedEntry(k, f[k])] :
      n \in 0..MaxStreakEntries, f \in [1..MaxStreakEntries -> Instants] }

\* new Date(t).setHours(0,0,0,0): local midnight of the day of t
setHours0(t) == t - (t % MsPerDay)

\* e put into a list that is sorted by createdAt, newest first
RECURSIVE insertDesc(_, _)
insertDesc(e, s) ==
  IF s = <<>> THEN <<e>>
  ELSE IF Head(s).createdAt - e.createdAt > 0
       THEN <<Head(s)>> \o insertDesc(e, Tail(s))
       ELSE <<e>> \o s

\* [...entries].sort((a, b) => getTime(b.createdAt) - getTime(a.createdAt))
RECURSIVE sortDesc(_)
sortDesc(s) ==
  IF s = <<>> THEN <<>> ELSE insertDesc(Head(s), sortDesc(Tail(s)))

\* the for loop of calculateStreak from index i on
RECURSIVE walkBreaksOnSameDay(_, _, _, _)
walkBreaksOnSameDay(sorted, i, currentDate, n) ==
  IF i > Len(sorted) THEN n
  ELSE LET entryDate == setHours0(sorted[i].createdAt)
           diff == currentDate - entryDate IN
       IF diff = MsPerDay THEN walkBreaksOnSameDay(sorted, i + 1, entryDate, n + 1)
       ELSE n

RECURSIVE walk(_, _, _, _)
walk(sorted, i, currentDate, n) ==
  IF i > Len(sorted) THEN n
  ELSE LET entryDate == setHours0(sorted[i].createdAt)
           diff == currentDate - entryDate IN
       IF diff = 0 THEN walk(sorted, i + 1, currentDate, n)
       ELSE IF diff = MsPerDay THEN walk(sorted, i + 1, entryDate, n + 1)
       ELSE n

\* calculateStreak(entries) when new Date() is clock
calculateStreak(entries, clock) ==
  IF Len(entries) = 0 THEN 0
  ELSE LET sorted == sortDesc(entries)
           today == setHours0(clock)
           lastEntryDate == setHours0(sorted[1].createdAt) IN
       IF lastEntryDate # today /\ today - lastEntryDate > MsPerDay THEN 0
       ELSE walk(sorted, 2, lastEntryDate, IF lastEntryDate = today THEN 1 ELSE 0)

\* the dashboard computes the streak of the stored collection
viewDashboard ==
  /\ Idle
  /\ LET got == getEntries(ls_entries) IN
     /\ got.val.t = "array"
     /\ streak' = calculateStreak(got.val.v, now)
  /\ UNCHANGED <<ls_draft, vid, ls_entries, ls_analysis, ls_journey, idb, file, exported, exp,
                 imp, inflight, last, dbPromise, opens, dbq, dbres, ref, ed, now>>

\* time passes
tick ==
  /\ now + HalfDay \in Instants
  /\ now' = now + HalfDay
  /\ UNCHANGED <<ls_draft, vid, ls_entries, ls_analysis, ls_journey, idb, file, exported, exp,
                 imp, inflight, last, dbPromise, opens, dbq, dbres, ref, ed, streak>>

(* ---------------------------------------------------------------------- *)
(* Object store                                                            *)
(* ---------------------------------------------------------------------- *)
\* store.put(blob, id): insert or overwrite
putIfAbsent(store, id, blob) ==
  IF store[id] = NoBlob THEN [store EXCEPT ![id] = blob] ELSE store

put(store, id, blob) == [store EXCEPT ![id] = blob]

\* store.get(id): request.result is undefined when the store has no such key
get(store, id) == store[id]

\* store.delete(id): succeeds whether or not the key exists
delete(store, id) == [store EXCEPT ![id] = NoBlob]

\* every content a caller can store
AllData == OwnData \cup ForeignData

\* getDB(): the promise is created, and indexedDB.open invoked, only when
\* no promise has been created yet; p is dbPromise, opened counts the open
getDBCachesHandle(p) ==
  IF p \in {"null", "pending"} THEN [promise |-> "pending", opened |-> 1]
  ELSE [promise |-> p, opened |-> 0]

getDBRetriesRejected(p) ==
  IF p \in {"null", "rejected"} THEN [promise |-> "pending", opened |-> 1]
  ELSE [promise |-> p, opened |-> 0]

getDB(p) ==
  IF p = "null" THEN [promise |-> "pending", opened |-> 1]
  ELSE [promise |-> p, opened |-> 0]

\* what the calls issued so far leave under each key, were they run one
\* after the other in call order
refAfter(r, op, key, blob) ==
  IF op = "save" THEN [r EXCEPT ![key] = blob]
  ELSE IF op = "delete" THEN [r EXCEPT ![key] = NoBlob]
  ELSE r

\* saveMediaBlob(id, blob) / getMediaBlob(id) / deleteMediaBlob(id) is
\* called: getDB() runs synchronously, the call suspends at the await.
\* awaits is the open whose promise the call waits on.
dbCall(op, key, blob) ==
  /\ Len(dbq) < MaxCalls
  /\ LET g == getDB(dbPromise)
         r == refAfter(ref, op, key, blob) IN
     /\ dbPromise' = g.promise
     /\ opens' = opens + g.opened
     /\ ref' = r
     /\ dbq' = Append(dbq, [op |-> op, key |-> key, blob |-> blob,
                            expect |-> r[key], awaits |-> opens + g.opened])
  /\ UNCHANGED <<ls_draft, vid, ls_entries, ls_analysis, ls_journey, idb, file, exported, exp,
                 imp, inflight, last, dbres, ed, now, streak>>

\* request.onsuccess / request.onerror of indexedDB.open
openSettles(ok) ==
  /\ dbPromise = "pending"
  /\ dbPromise' = IF ok THEN "fulfilled" ELSE "rejected"
  /\ UNCHANGED <<ls_draft, vid, ls_entries, ls_analysis, ls_journey, idb, file, exported, exp,
                 imp, inflight, last, opens, dbq, dbres, ref, ed, now, streak>>

\* The suspended call that was made first resumes: with a database it runs
\* its transaction and request, which settle before those of later calls
\* (transactions on one store run in the order they were created); with a
\* rejected open the await throws and the call rejects.
dbSettle ==
  /\ dbq # <<>>
  /\ dbPromise \in {"fulfilled", "rejected"}
  /\ LET c == Head(dbq) IN
     IF dbPromise = "rejected"
     THEN /\ dbres' = [op |-> c.op, key |-> c.key, blob |-> c.blob,
                       res |-> "rejected", val |-> NoBlob,
                       expect |-> c.expect, awaits |-> c.awaits]
          /\ UNCHANGED idb
     ELSE /\ idb' = IF c.op = "save" THEN put(idb, c.key, c.blob)
                    ELSE IF c.op = "delete" THEN delete(idb, c.key)
                    ELSE idb
          /\ dbres' = [op |-> c.op, key |-> c.key, blob |-> c.blob,
                       res |-> "ok",
                       val |-> IF c.op = "get" THEN get(idb, c.key) ELSE NoBlob,
                       expect |-> c.expect, awaits |-> c.awaits]
  /\ dbq' = Tail(dbq)
  /\ UNCHANGED <<ls_draft, vid, ls_entries, ls_analysis, ls_journey, file, exported, exp, imp,
                 inflight, last, dbPromise, opens, ref, ed, now, streak>>

\* addMediaBlob of the editor: saveMediaBlob(uuid, blob) under a fresh id,
\* then the new item, which has that blobId and no externalUrl, is appended
\* to the media list of the editor
addMediaBlob(id, blob) ==
  /\ Idle
  /\ idb[id] = NoBlob
  /\ idb' = put(idb, id, blob)
  /\ ed' = IF ed.mounted
           THEN [ed EXCEPT !.mediaItems = Append(@, [blobId |-> id, externalUrl |-> 0])]
           ELSE ed
  /\ last' = Did("addMediaBlob", "ok", id, NoEntry)
  /\ imp' = ImpIdle
  /\ UNCHANGED <<ls_entries, ls_analysis, ls_journey, file, exported, exp, inflight>>
  /\ UNCHANGED <<ls_draft, vid, dbPromise, opens, dbq, dbres, ref, now, streak>>

(* ---------------------------------------------------------------------- *)
(* EntryEditor                                                             *)
(* ---------------------------------------------------------------------- *)
\* analysisResult of the editor: null, an object without the AI-derived
\* fields ("empty": JSON.parse of "{}", or fields read from an entry that
\* has none), the object analyzeEntryWithGemini resolves with ("full"), or
\* the five fields the load effect reads from an analysed entry ("loaded")
AnalysisResults == {"empty", "full"}

\* the entry handleSave builds: createdAt, isAnalyzed: !!analysisResult,
\* media: mediaItems, ...analysisResult; ai tells whether the AI-derived
\* fields moodScore, moodLabel, keywords, summary, reflectionQuestion are
\* there, moodEmoji whether moodEmoji and moodColor are (updatedAt, which
\* every save stamps anew, is left out)
EditorEntry(i, c, at, an, med) ==
  [id |-> i, content |-> c, createdAt |-> at, imageId |-> NoRef, media |-> med,
   isAnalyzed |-> an # "null", ai |-> an \in {"full", "loaded"},
   moodEmoji |-> an = "full"]

\* the analysisResult the load effect derives from a stored entry
loadedAnalysis(e) ==
  IF e.isAnalyzed THEN IF e.ai THEN "loaded" ELSE "empty" ELSE "null"

\* generateId(): an id no stored entry has
freshId(s) == CHOOSE i \in 1..(Len(s) + 1) : \A k \in 1..Len(s) : s[k].id # i

\* The editor is mounted on a new entry (k = 0) or on the k-th stored entry
\* (handleEditEntry).  The load effect copies the entry's content, five
\* analysis fields (if isAnalyzed) and media; on a new entry it offers a
\* draft that has content and no entryId, and restores it (restore) or
\* clears the draft slot.
openEditor(k, restore) ==
  /\ Idle
  /\ ~ed.mounted
  /\ LET got == getEntries(ls_entries)
         draft == getDraft(ls_draft)
         offered == draft.t = "draft" /\ draft.n # 0 /\ draft.v[1] = 0 IN
     /\ got.val.t = "array"
     /\ k <= Len(got.val.v)
     /\ (k # 0 \/ ~offered) => restore
     /\ ed' = IF k = 0
              THEN [Unmounted EXCEPT !.mounted = TRUE,
                                     !.content = IF offered /\ restore THEN draft.n ELSE 0]
              ELSE LET e == got.val.v[k] IN
                   [mounted |-> TRUE, initialEntry |-> e.id, createdAt |-> e.createdAt,
                    initialContent |-> e.content, content |-> e.content,
                    analysisResult |-> loadedAnalysis(e),
                    mediaItems |-> e.media]
     /\ ls_draft' = IF k = 0 /\ offered /\ ~restore THEN Absent ELSE ls_draft
  /\ UNCHANGED <<vid, ls_entries, ls_analysis, ls_journey, idb, file, exported, exp,
                 imp, inflight, last, dbPromise, opens, dbq, dbres, ref, now, streak>>

\* the user types
setContent ==
  /\ ed.mounted
  /\ ed.content = 0
  /\ ed' = [ed EXCEPT !.content = 1]
  /\ UNCHANGED <<ls_draft, vid, ls_entries, ls_analysis, ls_journey, idb, file, exported, exp,
                 imp, inflight, last, dbPromise, opens, dbq, dbres, ref, now, streak>>

\* the auto-save effect, one second after the content has changed: content
\* that is not empty and differs from the entry's goes to the draft slot
autoSaveDraft ==
  /\ Idle
  /\ ed.mounted
  /\ ed.content # 0
  /\ ed.initialEntry = 0 \/ ed.content # ed.initialContent
  /\ ls_draft' = JSONstringify(JDraft(ed.content, ed.initialEntry, now))
  /\ ls_draft' # ls_draft
  /\ UNCHANGED <<vid, ls_entries, ls_analysis, ls_journey, idb, file, exported, exp,
                 imp, inflight, last, dbPromise, opens, dbq, dbres, ref, ed, now, streak>>

\* handleAnalyze: analyzeEntryWithGemini resolves with result, the parsed
\* response text or the parse of "{}" when the response has no text
handleAnalyze(result) ==
  /\ ed.mounted
  /\ ed.content # 0
  /\ ed' = [ed EXCEPT !.analysisResult = result]
  /\ UNCHANGED <<ls_draft, vid, ls_entries, ls_analysis, ls_journey, idb, file, exported, exp,
                 imp, inflight, last, dbPromise, opens, dbq, dbres, ref, now, streak>>

\* saveYouTubeLink(mediaId) with a link typed in: the item (a stored video
\* that has no link yet, the k-th of the list) gets the embed url
saveYouTubeLink(k) ==
  /\ ed.mounted
  /\ k \in 1..Len(ed.mediaItems)
  /\ ed.mediaItems[k].blobId # NoRef
  /\ ed.mediaItems[k].externalUrl = 0
  /\ ed' = [ed EXCEPT !.mediaItems[k] = [@ EXCEPT !.externalUrl = 1]]
  /\ UNCHANGED <<ls_draft, vid, ls_entries, ls_analysis, ls_journey, idb, file, exported, exp,
                 imp, inflight, last, dbPromise, opens, dbq, dbres, ref, now, streak>>

\* deleteMedia(id), confirmed: the item (the k-th of the list) is removed
\* from the list; its blob stays in the object store
deleteMediaAndBlob(k) ==
  /\ ed.mounted
  /\ k \in 1..Len(ed.mediaItems)
  /\ ed' = [ed EXCEPT !.mediaItems =
               [j \in 1..(Len(@) - 1) |-> IF j < k THEN @[j] ELSE @[j + 1]]]
  /\ idb' = IF ed.mediaItems[k].blobId # NoRef
            THEN delete(idb, ed.mediaItems[k].blobId) ELSE idb
  /\ UNCHANGED <<ls_draft, vid, ls_entries, ls_analysis, ls_journey, file, exported, exp,
                 imp, inflight, last, dbPromise, opens, dbq, dbres, ref, now, streak>>

deleteMedia(k) ==
  /\ ed.mounted
  /\ k \in 1..Len(ed.mediaItems)
  /\ ed' = [ed EXCEPT !.mediaItems =
               [j \in 1..(Len(@) - 1) |-> IF j < k THEN @[j] ELSE @[j + 1]]]
  /\ UNCHANGED <<ls_draft, vid, ls_entries, ls_analysis, ls_journey, idb, file, exported, exp,
                 imp, inflight, last, dbPromise, opens, dbq, dbres, ref, now, streak>>

\* handleSave: builds the entry and hands it to onSave = handleSaveEntry,
\* which calls saveEntry(entry) and leaves the editor for the list view;
\* then the draft is cleared.  maxLen caps the list length of the
\* specification.
handleSave(maxLen) ==
  /\ Idle
  /\ ed.mounted
  /\ ed.content # 0 \/ Len(ed.mediaItems) # 0
  /\ LET got == getEntries(ls_entries) IN
     IF got.raised \/ got.val.t # "array"
     THEN \* saveEntry raises, the editor stays
          /\ last' = Did("saveEntry", "raised", ed.initialEntry, NoEntry)
          /\ UNCHANGED <<ls_entries, ed, ls_draft>>
     ELSE LET entry == EditorEntry(IF ed.initialEntry # 0 THEN ed.initialEntry
                                   ELSE freshId(got.val.v),
                                   ed.content,
                                   IF ed.initialEntry # 0 THEN ed.createdAt ELSE now,
                                   ed.analysisResult, ed.mediaItems) IN
          /\ findIndex(got.val.v, entry.id) > 0 \/ Len(got.val.v) < maxLen
          /\ ls_entries' = JSONstringify(JArray(upsert(got.val.v, entry)))
          /\ last' = Did("saveEntry", "ok", entry.id, entry)
          /\ ed' = Unmounted
          /\ ls_draft' = Absent
  /\ imp' = ImpIdle
  /\ UNCHANGED <<ls_analysis, ls_journey, idb, file, exported, exp, inflight>>
  /\ UNCHANGED <<vid, dbPromise, opens, dbq, dbres, ref, now, streak>>

(* ---------------------------------------------------------------------- *)
(* generateJournalVideo                                                    *)
(* ---------------------------------------------------------------------- *)
\* what a rejected await throws: an error whose message contains
\* "Requested entity was not found", an error with another message, or a
\* value without a message (the event of FileReader.onerror)
VideoErrors == {"notFound", "other", "noMessage"}

\* error.message && error.message.includes("Requested entity was not found")
shouldRetryAlways(error) == TRUE

shouldRetry(error) == error = "notFound"

\* the first await of performGeneration
firstAwait(aistudio) == IF aistudio THEN "hasSelectedApiKey" ELSE "generateVideos"

\* everything a step of generateJournalVideo leaves alone
notVideo == <<ls_entries, ls_analysis, ls_journey, idb, file, exported, exp, imp,
              inflight, last, dbPromise, opens, dbq, dbres, ref, ed, now, streak,
              ls_draft>>

\* generateJournalVideo(entryText) is called: performGeneration(false)
generateJournalVideo(aistudio) ==
  /\ vid.pc = "idle"
  /\ vid' = [NoVideo EXCEPT !.pc = firstAwait(aistudio), !.aistudio = aistudio,
                            !.attempts = 1]
  /\ UNCHANGED notVideo

\* the await that performGeneration is suspended at resolves.  hasKey is
\* what hasSelectedApiKey resolves with, done the operation's done flag,
\* uri whether the finished operation carries a video uri.
videoAwaitResolves(hasKey, done, uri) ==
  /\ vid.pc \notin {"idle", "settled"}
  /\ vid.pc # "hasSelectedApiKey" => hasKey
  /\ vid.pc \notin {"generateVideos", "getVideosOperation"} => done /\ uri
  /\ vid.pc = "getVideosOperation" /\ vid.polls = MaxPolls => done
  /\ ~done => uri
  /\ LET retry == vid.attempts = 2
         \* while (!operation.done) ...; if (!videoUri) throw
         afterOperation ==
           IF ~done THEN [vid EXCEPT !.pc = "getVideosOperation", !.polls = @ + 1]
           ELSE IF uri THEN [vid EXCEPT !.pc = "fetch"]
           ELSE \* Error("Video generation failed")
                IF vid.attempts = 1 /\ shouldRetry("other")
                THEN [vid EXCEPT !.pc = firstAwait(vid.aistudio), !.attempts = 2,
                                 !.polls = 0, !.firstError = "other",
                                 !.firstStage = "videoUri"]
                ELSE [vid EXCEPT !.pc = "settled", !.result = "rejected",
                                 !.error = "other",
                                 !.firstError = IF vid.attempts = 1 THEN "other" ELSE @,
                                 !.firstStage = IF vid.attempts = 1 THEN "videoUri" ELSE @,
                                 !.secondError = IF vid.attempts = 2 THEN "other" ELSE @]
     IN vid' =
          IF vid.pc = "hasSelectedApiKey"
          THEN [vid EXCEPT !.pc = IF ~hasKey \/ retry THEN "openSelectKey"
                                  ELSE "generateVideos"]
          ELSE IF vid.pc = "openSelectKey"
          THEN [vid EXCEPT !.pc = "generateVideos", !.keyDialogs = @ + 1]
          ELSE IF vid.pc \in {"generateVideos", "getVideosOperation"}
          THEN afterOperation
          ELSE IF vid.pc = "fetch" THEN [vid EXCEPT !.pc = "readAsDataURL"]
          ELSE [vid EXCEPT !.pc = "settled", !.result = "resolved"]
  /\ UNCHANGED notVideo

\* the await that performGeneration is suspended at rejects with error:
\* the first performGeneration is caught and, if the message matches,
\* performGeneration(true) is called; otherwise, and from the second one,
\* the error goes to the caller
videoAwaitRejects(error) ==
  /\ vid.pc \notin {"idle", "settled"}
  /\ vid.pc = "readAsDataURL" => error = "noMessage"
  /\ vid' = IF vid.attempts = 1 /\ shouldRetry(error)
            THEN [vid EXCEPT !.pc = firstAwait(vid.aistudio), !.attempts = 2,
                             !.polls = 0, !.firstError = error, !.firstStage = vid.pc]
            ELSE [vid EXCEPT !.pc = "settled", !.result = "rejected", !.error = error,
                             !.firstError = IF vid.attempts = 1 THEN error ELSE @,
                             !.firstStage = IF vid.attempts = 1 THEN vid.pc ELSE @,
                             !.secondError = IF vid.attempts = 2 THEN error ELSE @]
  /\ UNCHANGED notVideo

\* The archive is taken to a browser profile that holds nothing yet (or the
\* site data of this one is cleared): the stores are as in Init, the file
\* stays with the user.
freshProfile ==
  /\ Idle
  /\ ls_entries' = Absent
  /\ ls_analysis' = Absent
  /\ ls_journey' = Absent
  /\ idb' = NoBlobs
  /\ last' = Did("freshProfile", "ok", 0, NoEntry)
  /\ imp' = ImpIdle
  /\ UNCHANGED <<file, exported, exp, inflight>>
  /\ UNCHANGED aux

(* ---------------------------------------------------------------------- *)
(* exportFullBackup                                                        *)
(* ---------------------------------------------------------------------- *)
\* the blob ids the export collects: reflection.imageId and media[].blobId
\* of every entry, where truthy
collectBlobIdsMediaOnly(s) ==
  UNION { { s[k].media[j].blobId : j \in 1..Len(s[k].media) } : k \in 1..Len(s) }
    \ {NoRef}

collectBlobIds(s) ==
  ({ s[k].imageId : k \in 1..Len(s) } \ {NoRef}) \cup
  (UNION { { s[k].media[j].blobId : j \in 1..Len(s[k].media) } : k \in 1..Len(s) }
     \ {NoRef})

\* exportFullBackup up to the point where every getMediaBlob has been
\* started; a collection that is no array makes entries.forEach throw, and
\* the export rejects.
exportStart ==
  /\ Idle
  /\ LET got == getEntries(ls_entries) IN
     IF got.val.t # "array"
     THEN /\ last' = Did("export", "rejected", 0, NoEntry)
          /\ UNCHANGED exp
     ELSE /\ exp' = [pc |-> "fetching", entries |-> got.val.v,
                     analysis |-> getPatternAnalysis,
                     journey |-> getLifeJourneyAnalysis,
                     pending |-> collectBlobIds(got.val.v),
                     zip |-> NoBlobs, rejected |-> FALSE, faulted |-> FALSE]
          /\ last' = Did("exportStart", "ok", 0, NoEntry)
  /\ imp' = ImpIdle
  /\ UNCHANGED <<ls_entries, ls_analysis, ls_journey, idb, file, exported, inflight>>
  /\ UNCHANGED aux

\* getMediaBlob(id).then(blob => { if (blob) mediaFolder.file(id, blob) }):
\* does the promise reject?  Only when the store's get fails.
fetchRejectsOnMissing(ok, blob) == ~ok \/ blob = NoBlob

fetchRejects(ok, blob) == ~ok

\* one getMediaBlob(id) settles: a found blob is put into the media folder
\* under its id, a missing one is skipped, a storage error rejects the join
exportFetch(id, ok) ==
  /\ exp.pc = "fetching"
  /\ id \in exp.pending
  /\ exp' = [exp EXCEPT !.pending = @ \ {id},
                        !.zip = IF ok /\ idb[id] # NoBlob THEN put(@, id, idb[id]) ELSE @,
                        !.rejected = @ \/ fetchRejects(ok, idb[id]),
                        !.faulted = @ \/ ~ok]
  /\ last' = Did("getMediaBlob", IF ok THEN "ok" ELSE "rejected", id, NoEntry)
  /\ UNCHANGED <<ls_entries, ls_analysis, ls_journey, idb, file, exported, imp, inflight>>
  /\ UNCHANGED aux

\* Promise.all settles and the archive is generated
exportResolve ==
  /\ exp.pc = "fetching"
  /\ exp.rejected \/ exp.pending = {}
  /\ IF exp.rejected
     THEN /\ last' = Did("export", "rejected", IF exp.faulted THEN 1 ELSE 0, NoEntry)
          /\ UNCHANGED <<file, exported>>
     ELSE /\ file' = [readable |-> TRUE, origin |-> "export",
                      doc |-> Document(JArray(exp.entries), exp.analysis, exp.journey),
                      media |-> exp.zip]
          /\ exported' = [valid |-> TRUE, entries |-> exp.entries,
                          analysis |-> exp.analysis, journey |-> exp.journey,
                          blobs |-> [b \in BlobIds |->
                                      IF b \in BlobRefs(exp.entries)
                                      THEN idb[b] ELSE NoBlob]]
          /\ last' = Did("export", "ok", 0, NoEntry)
  /\ exp' = ExpIdle
  /\ UNCHANGED <<ls_entries, ls_analysis, ls_journey, idb, imp, inflight>>
  /\ UNCHANGED aux

(* ---------------------------------------------------------------------- *)
(* importFullBackup                                                        *)
(* ---------------------------------------------------------------------- *)
\* storage faults an import can meet before the blob writes: setItem of
\* one slot throws (quota)
ImportFaults == {"none", "entries", "analysis", "journeyReport"}

\* if (data.f) localStorage.setItem(KEY, JSON.stringify(data.f))
restoreSlotAlways(slot, field) == JSONstringify(field)

restoreSlot(slot, field) == IF Truthy(field) THEN JSONstringify(field) ELSE slot

\* mediaFolder.forEach: one blob write per file of the media section, under
\* its archive-relative name
mediaWritesNone(archive) == NoBlobs

mediaWrites(archive) == archive.media

\* try { ...; return true } catch (e) { return false }
importResultIgnoresCatch(caught) == "true"

importResult(caught) == IF caught THEN "false" ELSE "true"

\* what throws before the first write: JSZip.loadAsync of a file that is
\* no archive, the missing journal_data.json, JSON.parse of a body that is
\* not JSON, and data.entries of a body that is the JSON null
formatErrorIgnoresMissing(archive) ==
  \/ ~archive.readable
  \/ archive.doc.kind \in {"text", "null"}

formatError(archive) ==
  \/ ~archive.readable
  \/ archive.doc.kind \in {"missing", "text", "null"}

\* handleFileChange: the user chooses an archive file, and importFullBackup
\* runs on it up to the point where every blob write has been started (or
\* an exception has been caught).
importStart(archive, fault) ==
  /\ Idle
  /\ archive.origin # "none"
  /\ LET d == archive.doc
         pre == [entries |-> ls_entries, analysis |-> ls_analysis,
                 journey |-> ls_journey, draft |-> ls_draft, idb |-> idb]
         threwEarly == formatError(archive)
         threw1 == Truthy(d.entries) /\ fault = "entries"
         threw2 == Truthy(d.analysis) /\ fault = "analysis"
         threw3 == Truthy(d.journeyReport) /\ fault = "journeyReport"
         threw == threwEarly \/ threw1 \/ threw2 \/ threw3
     IN /\ fault # "none" => ~threwEarly /\ (threw1 \/ threw2 \/ threw3)
        /\ ls_entries' = IF threwEarly \/ threw1 THEN ls_entries
                         ELSE restoreSlot(ls_entries, d.entries)
        /\ ls_analysis' = IF threwEarly \/ threw1 \/ threw2 THEN ls_analysis
                          ELSE restoreSlot(ls_analysis, d.analysis)
        /\ ls_journey' = IF threw THEN ls_journey
                         ELSE restoreSlot(ls_journey, d.journeyReport)
        /\ IF threw
           THEN /\ imp' = [pc |-> "idle", rejected |-> FALSE, archive |-> archive,
                           pre |-> pre, faults |-> {fault} \ {"none"},
                           written |-> {}]
                /\ inflight' = inflight
                /\ last' = Did("import", importResult(TRUE), 0, NoEntry)
           ELSE /\ imp' = [pc |-> "writing", rejected |-> FALSE, archive |-> archive,
                           pre |-> pre, faults |-> {}, written |-> {}]
                /\ inflight' = mediaWrites(archive)
                /\ last' = Did("importStart", "ok", 0, NoEntry)
  /\ UNCHANGED <<idb, file, exported, exp>>
  /\ UNCHANGED aux

\* one file.async("blob").then(saveMediaBlob) settles; a rejection rejects
\* the join if the import is still waiting on it
importBlobWrite(id, ok) ==
  /\ inflight[id] # NoBlob
  /\ inflight' = [inflight EXCEPT ![id] = NoBlob]
  /\ idb' = IF ok THEN put(idb, id, inflight[id]) ELSE idb
  /\ imp' = IF imp.pc = "writing"
            THEN [imp EXCEPT !.rejected = @ \/ ~ok,
                             !.faults = IF ok THEN @ ELSE @ \cup {"blob"},
                             !.written = IF ok THEN @ \cup {id} ELSE @]
            ELSE ImpIdle
  /\ last' = Did("saveMediaBlob", IF ok THEN "ok" ELSE "rejected", id, NoEntry)
  /\ UNCHANGED <<ls_entries, ls_analysis, ls_journey, file, exported, exp>>
  /\ UNCHANGED aux


\* await Promise.all(mediaPromises) settles: return true, or catch and
\* return false
importResolve ==
  /\ imp.pc = "writing"
  /\ imp.rejected \/ inflight = NoBlobs
  /\ imp' = [imp EXCEPT !.pc = "idle", !.rejected = FALSE]
  /\ last' = Did("import", importResult(imp.rejected), 0, NoEntry)
  /\ UNCHANGED <<ls_entries, ls_analysis, ls_journey, idb, file, exported, exp, inflight>>
  /\ UNCHANGED aux

(* ---------------------------------------------------------------------- *)
(* Specifications                                                          *)
(* ---------------------------------------------------------------------- *)
\* a media section with a file for every blob id
AllBlobs == [b \in BlobIds |-> "foreign"]

\* archives of other origin that the restore specification imports: files
\* that are no archive or lack a usable document, and archives whose
\* document and media section need not fit together
BackupArchives ==
  { [readable |-> FALSE, origin |-> "foreign",
     doc |-> [kind |-> "missing", entries |-> JUndefined, analysis |-> JUndefined,
              journeyReport |-> JUndefined],
     media |-> NoBlobs] }
  \cup
  { [readable |-> TRUE, origin |-> "foreign",
     doc |-> [kind |-> k, entries |-> JUndefined, analysis |-> JUndefined,
              journeyReport |-> JUndefined],
     media |-> AllBlobs] : k \in {"missing", "text", "null"} }
  \cup
  { [readable |-> TRUE, origin |-> "foreign",
     doc |-> Document(e, JUndefined, JUndefined), media |-> m] :
      e \in {JUndefined, JObject, JArray(<<>>)}
            \cup { JArray(<<x>>) : x \in RestoreEntries },
      m \in [BlobIds -> ForeignData \cup {NoBlob}] }

Reports == 1..NumReports

\* archives of other origin that the report specification imports
ReportArchives ==
  { [readable |-> TRUE, origin |-> "foreign", doc |-> Document(e, a, j),
     media |-> NoBlobs] :
      e \in {JUndefined, JNull, JArray(<<>>)} \cup { JArray(<<x>>) : x \in ReportEntries },
      a \in {JUndefined, JNull} \cup { JReport(r) : r \in Reports },
      j \in {JUndefined, JNull} \cup { JReport(r) : r \in Reports } }

NextStore ==
  \/ \E e \in StoreEntries : saveEntry(e, StoreEntryIds)
  \/ \E i \in 1..StoreEntryIds : deleteEntry(i)

SpecStore == Init /\ [][NextStore]_vars

\* the record store with backups: entries are saved and deleted, the
\* collection is exported, and the exported archive is imported again
NextUnique ==
  \/ \E e \in UniqueEntries : saveEntry(e, StoreEntryIds)
  \/ \E i \in 1..StoreEntryIds : deleteEntry(i)
  \/ exportStart
  \/ exportResolve
  \/ importStart(file, "none")
  \/ importResolve

SpecUnique == Init /\ [][NextUnique]_vars

\* deleteEntry on any collection of the slot: an import restores a
\* collection as the archive has it, also with an id that occurs twice
DeleteCollections ==
  UNION { [1..n -> StoreEntries] : n \in 0..StoreEntryIds }

InitDelete ==
  /\ ls_entries \in {Garbage} \cup { JSONstringify(JArray(c)) : c \in DeleteCollections }
  /\ ls_analysis = Absent
  /\ ls_journey = Absent
  /\ idb = NoBlobs
  /\ file = NoFile
  /\ exported = NoSnapshot
  /\ exp = ExpIdle
  /\ imp = ImpIdle
  /\ inflight = NoBlobs
  /\ last = [op |-> "init", res |-> "ok", arg |-> 0, entry |-> NoEntry, was |-> "absent"]
  /\ dbPromise = "null"
  /\ opens = 0
  /\ dbq = <<>>
  /\ dbres = NoResult
  /\ ref = NoBlobs
  /\ ed = Unmounted
  /\ now = 0
  /\ streak = 0
  /\ ls_draft = Absent
  /\ vid = NoVideo

NextDelete ==
  \/ \E i \in 1..StoreEntryIds : deleteEntry(i)
  \/ \E e \in StoreEntries : saveEntry(e, StoreEntryIds)

SpecDelete == InitDelete /\ [][NextDelete]_vars

\* the editor: entries are written, analysed, given attachments and links,
\* saved and opened again
NextEditor ==
  \/ \E k \in 0..MaxEditorEntries, restore \in BOOLEAN : openEditor(k, restore)
  \/ setContent
  \/ autoSaveDraft
  \/ \E r \in AnalysisResults : handleAnalyze(r)
  \/ \E b \in BlobIds, d \in OwnData : ed.mounted /\ addMediaBlob(b, d)
  \/ \E k \in 1..NumBlobIds : saveYouTubeLink(k)
  \/ \E k \in 1..NumBlobIds : deleteMedia(k)
  \/ handleSave(MaxEditorEntries)
  \/ \E i \in 1..MaxEditorEntries : deleteEntry(i)

SpecEditor == Init /\ [][NextEditor]_vars

\* editing over time: entries are written, analysed and saved, and opened
\* and saved again at a later instant
NextEdit ==
  \/ \E k \in 0..MaxEditorEntries, restore \in BOOLEAN : openEditor(k, restore)
  \/ setContent
  \/ autoSaveDraft
  \/ \E r \in AnalysisResults : handleAnalyze(r)
  \/ handleSave(MaxEditorEntries)
  \/ tick

SpecEdit == Init /\ [][NextEdit]_vars

\* video generation: one call of generateJournalVideo, every await of which
\* may resolve or reject
NextVideo ==
  \/ \E a \in BOOLEAN : generateJournalVideo(a)
  \/ \E hasKey, done, uri \in BOOLEAN : videoAwaitResolves(hasKey, done, uri)
  \/ \E e \in VideoErrors : videoAwaitRejects(e)

SpecVideo == Init /\ [][NextVideo]_vars

\* the database layer: calls of db.ts in any number and interleaving with
\* the completion of the open
NextDb ==
  \/ \E k \in BlobIds, d \in AllData : dbCall("save", k, d)
  \/ \E k \in BlobIds : dbCall("get", k, NoBlob)
  \/ \E k \in BlobIds : dbCall("delete", k, NoBlob)
  \/ \E ok \in BOOLEAN : openSettles(ok)
  \/ dbSettle

SpecDb == Init /\ [][NextDb]_vars

\* calculateStreak is a function of the entry collection and of the clock:
\* the profile holds any collection of dated entries (written by this
\* device, restored from a backup of another one, or written before the
\* system clock was corrected) at any instant of the clock
InitStreak ==
  /\ ls_entries \in { JSONstringify(JArray(c)) : c \in DatedCollections }
  /\ now \in Instants
  /\ ls_analysis = Absent
  /\ ls_journey = Absent
  /\ idb = NoBlobs
  /\ file = NoFile
  /\ exported = NoSnapshot
  /\ exp = ExpIdle
  /\ imp = ImpIdle
  /\ inflight = NoBlobs
  /\ last = [op |-> "init", res |-> "ok", arg |-> 0, entry |-> NoEntry, was |-> "absent"]
  /\ dbPromise = "null"
  /\ opens = 0
  /\ dbq = <<>>
  /\ dbres = NoResult
  /\ ref = NoBlobs
  /\ ed = Unmounted
  /\ streak = 0
  /\ ls_draft = Absent
  /\ vid = NoVideo

\* the streak of a collection of dated entries: a new entry is stamped with
\* the clock and gets a fresh id
NextStreak ==
  \/ \E e \in { DatedEntry(Len(getEntries(ls_entries).val.v) + 1, now) } :
        saveEntry(e, MaxStreakEntries)
  \/ tick
  \/ viewDashboard

SpecStreak == InitStreak /\ [][NextStreak]_vars

\* export, and import of the exported archive, with attachments; a fetch of
\* the export may meet a storage error, the import's writes do not (those
\* are exercised by the restore specification)
NextBackup ==
  \/ \E e \in BackupEntries : saveEntry(e, 1)
  \/ deleteEntry(1)
  \/ \E b \in BlobIds, d \in OwnData : addMediaBlob(b, d)
  \/ freshProfile
  \/ exportStart
  \/ \E b \in BlobIds, ok \in BOOLEAN : exportFetch(b, ok)
  \/ exportResolve
  \/ importStart(file, "none")
  \/ \E b \in BlobIds : importBlobWrite(b, TRUE)
  \/ importResolve

SpecBackup == Init /\ [][NextBackup]_vars

\* import of archives of other origin, with attachments
NextRestore ==
  \/ \E e \in RestoreEntries : saveEntry(e, 1)
  \/ deleteEntry(1)
  \/ \E b \in BlobIds, d \in OwnData : addMediaBlob(b, d)
  \/ \E a \in BackupArchives, f \in ImportFaults : importStart(a, f)
  \/ \E b \in BlobIds, ok \in BOOLEAN : importBlobWrite(b, ok)
  \/ importResolve

SpecRestore == Init /\ [][NextRestore]_vars

\* archives of other origin with a full media section, with and without a
\* usable document
FormatArchives ==
  { a \in BackupArchives : a.readable /\ a.media = AllBlobs }

\* import of such archives into a profile that holds entries, a cached
\* report, a draft and blobs
NextFormat ==
  \/ \E e \in RestoreEntries : saveEntry(e, 1)
  \/ deleteEntry(1)
  \/ \E r \in Reports : savePatternAnalysis(r)
  \/ \E b \in BlobIds, d \in OwnData : addMediaBlob(b, d)
  \/ saveDraft(1, 0)
  \/ clearDraft
  \/ \E a \in FormatArchives : importStart(a, "none")
  \/ \E b \in BlobIds : importBlobWrite(b, TRUE)
  \/ importResolve

SpecFormat == Init /\ [][NextFormat]_vars

\* export, and import of the exported archive, with the cached reports
NextReports ==
  \/ \E e \in ReportEntries : saveEntry(e, 1)
  \/ deleteEntry(1)
  \/ \E r \in Reports : savePatternAnalysis(r)
  \/ \E r \in Reports : saveLifeJourneyAnalysis(r)
  \/ freshProfile
  \/ exportStart
  \/ exportResolve
  \/ \E f \in ImportFaults : importStart(file, f)
  \/ importResolve

SpecReports == Init /\ [][NextReports]_vars

\* import of archives of other origin, with the cached reports
\* the life of attachments: the editor attaches and removes media, entries
\* are saved, edited and deleted, the collection is exported, and the
\* exported archive is imported again, its blob writes failing or not
NextBlobs ==
  \/ \E k \in 0..1 : openEditor(k, TRUE)
  \/ setContent
  \/ \E b \in BlobIds, d \in OwnData : ed.mounted /\ addMediaBlob(b, d)
  \/ \E k \in 1..NumBlobIds : deleteMedia(k)
  \/ handleSave(1)
  \/ ~ed.mounted /\ deleteEntry(1)
  \/ exportStart
  \/ \E b \in BlobIds : exportFetch(b, TRUE)
  \/ exportResolve
  \/ importStart(file, "none")
  \/ \E b \in BlobIds, ok \in BOOLEAN : importBlobWrite(b, ok)
  \/ importResolve

SpecBlobs == Init /\ [][NextBlobs]_vars

\* the dashboard's report generations, on a collection that entries are
\* added to and deleted from and that an import may replace together with
\* the cached reports
NextInsights ==
  \/ \E e \in ReportEntries : saveEntry(e, 1)
  \/ deleteEntry(1)
  \/ \E r \in Reports, ok \in BOOLEAN : handleDetectPatterns(r, ok)
  \/ \E r \in Reports, ok \in BOOLEAN : handleGenerateJourney(r, ok)
  \/ \E a \in ReportArchives : importStart(a, "none")
  \/ importResolve

SpecInsights == Init /\ [][NextInsights]_vars

\* archives of other origin that have a collection, a pattern-analysis
\* field and attachments
RollbackArchives ==
  { [readable |-> TRUE, origin |-> "foreign", doc |-> Document(e, a, JUndefined),
     media |-> m] :
      e \in {JUndefined} \cup { JArray(<<x>>) : x \in ReportEntries },
      a \in {JUndefined, JNull} \cup { JReport(r) : r \in Reports },
      m \in [BlobIds -> ForeignData \cup {NoBlob}] }

\* import of such archives, blob writes failing or not, into a profile
\* that has a collection, a cached pattern analysis and blobs
NextRollback ==
  \/ \E e \in ReportEntries : saveEntry(e, 1)
  \/ \E r \in Reports : savePatternAnalysis(r)
  \/ \E b \in BlobIds, d \in OwnData : addMediaBlob(b, d)
  \/ \E a \in RollbackArchives : importStart(a, "none")
  \/ \E b \in BlobIds, ok \in BOOLEAN : importBlobWrite(b, ok)
  \/ importResolve

SpecRollback == Init /\ [][NextRollback]_vars

NextPartial ==
  \/ \E e \in ReportEntries : saveEntry(e, 1)
  \/ deleteEntry(1)
  \/ \E r \in Reports : savePatternAnalysis(r)
  \/ \E r \in Reports : saveLifeJourneyAnalysis(r)
  \/ \E a \in ReportArchives, f \in ImportFaults : importStart(a, f)
  \/ importResolve

SpecPartial == Init /\ [][NextPartial]_vars

(* ---------------------------------------------------------------------- *)
(* Record store properties                                                 *)
(* ---------------------------------------------------------------------- *)
\* the list getEntries() returns in the current state
Collection == getEntries(ls_entries).val.v

\* C6: saveEntry upsert.  A saveEntry of an entry whose id the collection
\* already holds replaces that entry at its index, keeps the length and
\* every other entry; a saveEntry of a new id puts the entry at index 0
\* (here 1), grows the length by one and keeps the previous entries in
\* their order behind it.
C6_SaveEntryUpsert ==
  [][ (last'.op = "saveEntry" /\ last'.res = "ok") =>
        LET old == getEntries(ls_entries).val.v
            new == getEntries(ls_entries').val.v
            e == last'.entry
            hits == { k \in 1..Len(old) : old[k].id = e.id }
        IN IF hits # {}
           THEN LET k == CHOOSE k \in hits : \A j \in hits : k <= j IN
                /\ Len(new) = Len(old)
                /\ new[k] = e
                /\ \A j \in 1..Len(old) : j # k => new[j] = old[j]
           ELSE /\ Len(new) = Len(old) + 1
                /\ new[1] = e
                /\ \A j \in 1..Len(old) : new[j + 1] = old[j] ]_vars

\* a saveEntry has replaced the entry at the last index of a list of three
C6_Witness ==
  /\ last.op = "saveEntry" /\ last.res = "ok"
  /\ Len(Collection) = 3
  /\ Collection[3] = last.entry
  /\ Collection[1].id # Collection[2].id

\* C10: corrupt record slot degrades to empty.  While the entry slot is
\* absent or holds text that is not JSON, getEntries() returns the empty
\* list without raising; a saveEntry(e) that started in such a state did
\* not raise and persisted the collection <<e>>.
C10_CorruptSlotDegrades ==
  /\ ls_entries.kind \in {"absent", "text"} =>
        getEntries(ls_entries) = [raised |-> FALSE, val |-> JArray(<<>>)]
  /\ (last.op = "saveEntry" /\ last.was \in {"absent", "text"}) =>
        /\ last.res = "ok"
        /\ ls_entries = JsonText(JArray(<<last.entry>>))

\* a saveEntry has acted on a slot that held text that is not JSON
C10_Witness ==
  /\ last.op = "saveEntry" /\ last.was = "text" /\ last.res = "ok"
  /\ Collection = <<last.entry>>

(* ---------------------------------------------------------------------- *)
(* Export and import properties                                            *)
(* ---------------------------------------------------------------------- *)
\* an import has just resolved
Imported == last.op = "import"
\* ... of the archive that exportFullBackup produced
ImportedExport == Imported /\ imp.archive.origin = "export" /\ exported.valid
\* an export has just resolved with an archive
Exported == last.op = "export" /\ last.res = "ok"

\* C1: round trip.  An import of the archive that exportFullBackup produced
\* (met by no storage fault) resolves to true; afterwards getEntries() is
\* the collection of export time, and every blob id that the restored
\* collection references resolves to the content it had at export time (a
\* reference that was absent at export time resolves as before the import).
C1_RoundTrip ==
  (ImportedExport /\ imp.faults = {}) =>
    /\ last.res = "true"
    /\ getEntries(ls_entries) = [raised |-> FALSE, val |-> JArray(exported.entries)]
    /\ \A b \in BlobRefs(exported.entries) :
         idb[b] = IF exported.blobs[b] # NoBlob THEN exported.blobs[b]
                  ELSE imp.pre.idb[b]

\* an exported archive has been imported into a profile that held neither
\* the entry nor its blobs, and the entry's reference resolves again
C1_Witness ==
  /\ ImportedExport /\ last.res = "true"
  /\ imp.pre.entries = Absent
  /\ Collection # <<>>
  /\ \E b \in BlobRefs(Collection) : imp.pre.idb[b] = NoBlob /\ idb[b] # NoBlob

\* C2: full replacement.  After an import of an exported archive that
\* resolved to true, the entry collection, the cached pattern analysis and
\* the cached journey report are those of the state the archive was
\* exported from (null where that state had no cached report).
C2_FullReplacement ==
  (ImportedExport /\ last.res = "true") =>
    /\ getEntries(ls_entries).val = JArray(exported.entries)
    /\ getPatternAnalysis = exported.analysis
    /\ getLifeJourneyAnalysis = exported.journey

\* C3: partial-field import, omitted field.  After an import of an archive
\* whose document has no entries / analysis / journeyReport field, the
\* entry slot / pattern-analysis slot / journey-report slot holds what it
\* held when the import started.
C3_OmittedFieldUntouched ==
  Imported =>
    /\ imp.archive.doc.entries = JUndefined => ls_entries = imp.pre.entries
    /\ imp.archive.doc.analysis = JUndefined => ls_analysis = imp.pre.analysis
    /\ imp.archive.doc.journeyReport = JUndefined => ls_journey = imp.pre.journey

\* an import has replaced the collection and, its document having no
\* analysis field, has left a cached pattern analysis in place
C3_Witness ==
  /\ Imported /\ last.res = "true"
  /\ imp.archive.doc.analysis = JUndefined
  /\ ls_analysis # Absent
  /\ imp.archive.doc.entries # JUndefined
  /\ ls_entries # imp.pre.entries

\* C4: partial-field import, present field.  After an import that resolved
\* to true, getPatternAnalysis() returns the value of the document's
\* analysis field whenever the document has that field (a report or null),
\* and getLifeJourneyAnalysis() the value of its journeyReport field.
C4_PresentFieldOverwrites ==
  (Imported /\ last.res = "true") =>
    /\ imp.archive.doc.analysis # JUndefined =>
         getPatternAnalysis = imp.archive.doc.analysis
    /\ imp.archive.doc.journeyReport # JUndefined =>
         getLifeJourneyAnalysis = imp.archive.doc.journeyReport

\* C5: missing-blob tolerance.  An export rejects only when a getMediaBlob
\* met a storage error; the archive of an export has no media entry for a
\* referenced blob id that the object store lacks, holds the collection as
\* its document and every referenced blob the store has; an import of it
\* (met by no storage fault) resolves to true and leaves the object store's
\* value for the missing id as it was.
C5_MissingBlobTolerated ==
  /\ (last.op = "export" /\ last.res = "rejected") => last.arg = 1
  /\ Exported =>
       /\ file.doc.entries = JArray(exported.entries)
       /\ \A b \in BlobRefs(exported.entries) : file.media[b] = exported.blobs[b]
  /\ (ImportedExport /\ imp.faults = {}) =>
       /\ last.res = "true"
       /\ \A b \in BlobRefs(exported.entries) :
            exported.blobs[b] = NoBlob => idb[b] = imp.pre.idb[b]

\* an archive exported while one referenced blob was missing and another
\* one present has been imported, and the missing reference still dangles
C5_Witness ==
  /\ ImportedExport /\ last.res = "true"
  /\ \E b \in BlobRefs(Collection) :
       exported.blobs[b] = NoBlob /\ imp.archive.media[b] = NoBlob /\ idb[b] = NoBlob
  /\ \E b \in BlobRefs(Collection) : imp.archive.media[b] # NoBlob

\* an import has met a failure: the file is no archive, it has no
\* journal_data.json, the document is not JSON or is the JSON null, or a
\* slot write or a blob write failed
ImportFailure ==
  \/ ~imp.archive.readable
  \/ imp.archive.doc.kind \in {"missing", "text", "null"}
  \/ imp.faults # {}

\* C7: import failure is reported only as a value.  importFullBackup
\* resolves to true or to false, never rejects, and resolves to false
\* whenever the import met a failure.
C7_FailureIsFalse ==
  Imported =>
    /\ last.res \in {"true", "false"}
    /\ ImportFailure => last.res = "false"

\* an import whose blob write failed has resolved to false
C7_Witness ==
  /\ Imported /\ last.res = "false"
  /\ "blob" \in imp.faults
  /\ imp.archive.doc.kind = "object"

\* C8: no success on partial application.  After an import that resolved
\* to true, every field the document has reads back from its slot, every
\* entry of the media section is in the object store under its name, and
\* no blob write is pending.
C8_TrueMeansApplied ==
  (Imported /\ last.res = "true") =>
    /\ imp.archive.doc.entries # JUndefined =>
         getEntries(ls_entries).val = imp.archive.doc.entries
    /\ imp.archive.doc.analysis # JUndefined =>
         getPatternAnalysis = imp.archive.doc.analysis
    /\ imp.archive.doc.journeyReport # JUndefined =>
         getLifeJourneyAnalysis = imp.archive.doc.journeyReport
    /\ \A b \in BlobIds :
         imp.archive.media[b] # NoBlob => idb[b] = imp.archive.media[b]
    /\ inflight = NoBlobs

\* C9: export media set.  The media section of an exported archive holds
\* exactly the blob ids that an entry of the collection references and the
\* object store has, each with the store's content; a blob that no entry
\* references is not in it.
C9_ExportMediaSet ==
  Exported =>
    /\ exported.entries = Collection
    /\ \A b \in BlobIds :
         file.media[b] = IF b \in BlobRefs(Collection) THEN idb[b] ELSE NoBlob

\* an export has packed a referenced blob and left out a stored blob that
\* no entry references
C9_Witness ==
  /\ Exported
  /\ \E b \in BlobRefs(Collection) : file.media[b] # NoBlob
  /\ \E b \in BlobIds : b \notin BlobRefs(Collection) /\ idb[b] # NoBlob
                        /\ file.media[b] = NoBlob

(* ---------------------------------------------------------------------- *)
(* Database layer properties                                               *)
(* ---------------------------------------------------------------------- *)
\* C11: object store reference behaviour.  On a working engine every call
\* resolves: a get resolves to the content of the latest save of its key
\* that no delete followed (absent otherwise, never a rejection), a save
\* leaves its content under the key also when the key existed, a delete
\* leaves the key absent also when it was absent; once every call has
\* settled the store equals the reference store.
C11_StoreReference ==
  dbPromise = "fulfilled" =>
    /\ dbres.op # "none" => dbres.res = "ok"
    /\ dbres.op = "get" => dbres.val = dbres.expect
    /\ dbres.op = "save" => get(idb, dbres.key) = dbres.blob
    /\ dbres.op = "delete" => get(idb, dbres.key) = NoBlob
    /\ dbq = <<>> => \A k \in BlobIds : get(idb, k) = ref[k]

\* a get has resolved to a stored content while the other calls of the run
\* have left some key absent
C11_Witness ==
  /\ dbres.op = "get" /\ dbres.res = "ok"
  /\ dbres.val \in ForeignData /\ dbres.val = dbres.expect
  /\ \E k \in BlobIds : idb[k] = NoBlob

\* C12: single lazy open.  indexedDB.open is invoked at most once, however
\* many calls are made and whether or not the open has completed, and every
\* call waits on, and settles with, the promise of that one open.
C12_SingleOpen ==
  /\ opens <= 1
  /\ \A i \in 1..Len(dbq) : dbq[i].awaits = 1
  /\ dbres.op # "none" => dbres.awaits = 1

\* two calls were made before the open completed
C12_Witness ==
  /\ dbPromise = "pending" /\ Len(dbq) >= 2 /\ opens = 1

(* ---------------------------------------------------------------------- *)
(* Streak properties                                                       *)
(* ---------------------------------------------------------------------- *)
\* the calendar day of an instant, the days that have an entry, today
DayOf(t) == t \div MsPerDay
DaysOf(s) == { DayOf(s[k].createdAt) : k \in 1..Len(s) }
Today == DayOf(now)
MostRecentDay(s) == CHOOSE d \in DaysOf(s) : \A e \in DaysOf(s) : e <= d
\* the number of consecutive days with an entry, counted backward from d
ConsecutiveDays(s, d) ==
  CHOOSE n \in 0..(StreakDays + 1) :
    /\ \A j \in 0..(n - 1) : (d - j) \in DaysOf(s)
    /\ (d - n) \notin DaysOf(s)

\* C13: streak value.  When the most recent entry is dated today or
\* yesterday, the streak the dashboard computes is the number of consecutive
\* calendar days with an entry, counted backward from the most recent
\* entry's day.
C13_StreakValue ==
  [][(/\ viewDashboard
      /\ Collection # <<>>
      /\ MostRecentDay(Collection) \in {Today, Today - 1})
     => streak' = ConsecutiveDays(Collection, MostRecentDay(Collection))]_vars

\* C14: streak ignores duplicates.  A step that leaves the set of days that
\* have an entry, and today, as they were (a further entry on a day that
\* already has one) leaves calculateStreak unchanged.
C14_DuplicatesIgnored ==
  [][(/\ getEntries(ls_entries').val.t = "array"
      /\ getEntries(ls_entries).val.t = "array"
      /\ DaysOf(getEntries(ls_entries').val.v) = DaysOf(Collection)
      /\ DayOf(now') = Today)
     => calculateStreak(getEntries(ls_entries').val.v, now')
          = calculateStreak(Collection, now)]_vars

\* an entry has been added on a day that already had one, and the streak
\* runs over that day and the day before it
C14_Witness ==
  /\ last.op = "saveEntry" /\ last.res = "ok"
  /\ Len(Collection) = 3
  /\ DayOf(Collection[1].createdAt) = DayOf(Collection[2].createdAt)
  /\ Collection[1].createdAt # Collection[2].createdAt
  /\ DaysOf(Collection) = {Today, Today - 1}
  /\ calculateStreak(Collection, now) = 2

\* C15: broken streak.  When no entry is dated today and none yesterday
\* (also when there is no entry at all), the streak the dashboard computes
\* is 0.
C15_BrokenStreak ==
  [][(/\ viewDashboard
      /\ Today \notin DaysOf(Collection)
      /\ (Today - 1) \notin DaysOf(Collection))
     => streak' = 0]_vars

(* ---------------------------------------------------------------------- *)
(* deleteEntry properties                                                  *)
(* ---------------------------------------------------------------------- *)
\* C16: deleteEntry(id) persists the collection without every entry whose
\* id is id, the other entries with their values and in their order; when
\* no entry has that id the collection is as it was; a second deleteEntry(id)
\* would persist what the first has persisted.
C16_DeleteEntry ==
  [][\A i \in 1..StoreEntryIds :
       (deleteEntry(i) /\ last'.res = "ok") =>
         LET old == getEntries(ls_entries).val.v
             new == getEntries(ls_entries').val.v IN
         /\ ls_entries'.kind = "json"
         /\ new = SelectSeq(old, LAMBDA e : e.id # i)
         /\ (\A k \in 1..Len(old) : old[k].id # i) => new = old
         /\ JSONstringify(JArray(filterOut(new, i))) = ls_entries']_vars

\* a deleteEntry has removed the two entries that had its id and has kept
\* an entry with another id
C16_Witness ==
  /\ last.op = "deleteEntry" /\ last.res = "ok" /\ last.was = "many"
  /\ Len(Collection) >= 1
  /\ \A k \in 1..Len(Collection) : Collection[k].id # last.arg

(* ---------------------------------------------------------------------- *)
(* Editor properties                                                       *)
(* ---------------------------------------------------------------------- *)
\* a media item has exactly one of blobId and externalUrl
SingleReference(m) == (m.blobId # NoRef) # (m.externalUrl # 0)

\* C17: JournalMedia single content reference.  Every media item of the
\* editor and of every stored entry has exactly one of blobId and
\* externalUrl, never both.
C17_SingleContentReference ==
  /\ \A k \in 1..Len(ed.mediaItems) : SingleReference(ed.mediaItems[k])
  /\ \A i \in 1..Len(Collection) :
       \A k \in 1..Len(Collection[i].media) : SingleReference(Collection[i].media[k])

\* C18: isAnalyzed invariant.  Every entry that handleSave has stored has
\* isAnalyzed true if and only if it carries the AI-derived fields.
C18_IsAnalyzed ==
  \A i \in 1..Len(Collection) : Collection[i].isAnalyzed <=> Collection[i].ai

(* ---------------------------------------------------------------------- *)
(* Export properties: external links and failed fetches                    *)
(* ---------------------------------------------------------------------- *)
\* the blob ids that some entry of the list s references through its
\* reflection image or through a media item that has no externalUrl
LocalBlobRefs(s) ==
  { b \in BlobIds : \E k \in 1..Len(s) :
      \/ s[k].imageId = b
      \/ \E j \in 1..Len(s[k].media) :
           s[k].media[j].blobId = b /\ s[k].media[j].externalUrl = 0 }

\* C19: export skips external-URL items.  The media section of an exported
\* archive holds a blob only if a reflection image or a media item without
\* externalUrl references it: an item that has an externalUrl contributes
\* no blob.
C19_ExportSkipsExternal ==
  Exported =>
    \A b \in BlobIds : file.media[b] # NoBlob => b \in LocalBlobRefs(exported.entries)

\* C20: export tolerates a failed fetch.  An export one of whose
\* getMediaBlob calls rejected with a storage error still completes, and
\* its archive has the document and, of the referenced blobs, lacks at
\* most those whose fetch failed.
C20_FailedFetchTolerated ==
  (last.op = "export" /\ last.arg = 1) =>
    /\ last.res = "ok"
    /\ file.readable /\ file.origin = "export"
    /\ file.doc.entries = JArray(Collection)
    /\ \A b \in BlobRefs(Collection) : file.media[b] \in {idb[b], NoBlob}

(* ---------------------------------------------------------------------- *)
(* Import properties: the join, failures, format errors                    *)
(* ---------------------------------------------------------------------- *)
\* C21: import joins on all writes.  When importFullBackup has resolved, to
\* true or to false, none of the blob writes it started is still in
\* flight (so none can change the object store afterwards).
C21_ImportJoinsAllWrites ==
  Imported => inflight = NoBlobs

\* C22: no rollback on a blob-write failure.  An import one of whose blob
\* writes failed resolves to false; the entry collection and the report
\* caches then hold the values of the archive document's fields, and every
\* blob whose write succeeded is in the object store with the archive's
\* content.
C22_NoRollback ==
  (Imported /\ "blob" \in imp.faults) =>
    /\ last.res = "false"
    /\ imp.archive.doc.entries # JUndefined =>
         getEntries(ls_entries).val = imp.archive.doc.entries
    /\ imp.archive.doc.analysis # JUndefined =>
         getPatternAnalysis = imp.archive.doc.analysis
    /\ imp.archive.doc.journeyReport # JUndefined =>
         getLifeJourneyAnalysis = imp.archive.doc.journeyReport
    /\ \A b \in imp.written : idb[b] = imp.archive.media[b]

\* C23: format errors leave the state untouched.  An import of an archive
\* that has no journal_data.json, or whose journal_data.json is not JSON,
\* resolves to false, starts no blob write and leaves the entry slot, the
\* report slots, the draft slot and the object store as they were, whatever
\* the media section holds.
C23_FormatErrorUntouched ==
  (Imported /\ imp.archive.readable /\ imp.archive.doc.kind \in {"missing", "text"}) =>
    /\ last.res = "false"
    /\ ls_entries = imp.pre.entries
    /\ ls_analysis = imp.pre.analysis
    /\ ls_journey = imp.pre.journey
    /\ ls_draft = imp.pre.draft
    /\ idb = imp.pre.idb
    /\ inflight = NoBlobs

\* an archive with media files and no journal_data.json has been imported
\* into a profile that holds an entry, a draft and a blob
C23_Witness ==
  /\ Imported /\ last.res = "false"
  /\ imp.archive.readable /\ imp.archive.doc.kind = "missing"
  /\ \A b \in BlobIds : imp.archive.media[b] # NoBlob
  /\ Collection # <<>>
  /\ ls_analysis # Absent
  /\ ls_draft # Absent
  /\ \E b \in BlobIds : idb[b] # NoBlob /\ idb[b] # imp.archive.media[b]

(* ---------------------------------------------------------------------- *)
(* Attachment properties                                                   *)
(* ---------------------------------------------------------------------- *)
\* C24: blobs are never removed.  No step of the application (attaching or
\* removing media in the editor, saving or editing an entry, deleteEntry,
\* export, import) takes a key out of the object store, and deleteEntry
\* and the removal of a media item leave the object store as it is.
C24_BlobsNeverRemoved ==
  [][/\ \A b \in BlobIds : idb[b] # NoBlob => idb'[b] # NoBlob
     /\ (deleteEntry(1) \/ \E k \in 1..NumBlobIds : deleteMedia(k)) => idb' = idb]_vars

\* the entry that referenced a stored blob has been deleted, and the blob,
\* which no entry references any more, is still in the object store
C24_Witness ==
  /\ last.op = "deleteEntry" /\ last.was = "one"
  /\ Collection = <<>>
  /\ \E b \in BlobIds : idb[b] # NoBlob

(* ---------------------------------------------------------------------- *)
(* Cached report properties                                                *)
(* ---------------------------------------------------------------------- *)
\* C25: cached report singleton.  After a successful generation of a
\* pattern analysis getPatternAnalysis() returns the report just generated,
\* and after a successful generation of a life-journey analysis
\* getLifeJourneyAnalysis() returns the report just generated, whatever
\* the slot held before.
C25_CachedReportSingleton ==
  /\ (last.op = "handleDetectPatterns" /\ last.res = "ok") =>
       getPatternAnalysis = JReport(last.arg)
  /\ (last.op = "handleGenerateJourney" /\ last.res = "ok") =>
       getLifeJourneyAnalysis = JReport(last.arg)

(* ---------------------------------------------------------------------- *)
(* Editing properties                                                      *)
(* ---------------------------------------------------------------------- *)
\* C26: an edit keeps the entry's identity and its other fields.  When the
\* editor was opened on a stored entry and handleSave stores it, the
\* collection has the same length and the same entries at the other
\* positions, the entry at the edited position has the same id and
\* createdAt, and whatever the user has not changed in the editor
\* (content, media, the analysis with moodEmoji and moodColor) is as it was
\* stored.
C26_EditKeepsFields ==
  [][(handleSave(MaxEditorEntries) /\ ed.initialEntry # 0 /\ last'.res = "ok") =>
       LET old == Collection
           new == getEntries(ls_entries').val.v
           k == findIndex(old, ed.initialEntry) IN
       /\ k > 0
       /\ Len(new) = Len(old)
       /\ \A j \in 1..Len(old) : j # k => new[j] = old[j]
       /\ new[k].id = old[k].id
       /\ new[k].createdAt = old[k].createdAt
       /\ ed.content = old[k].content => new[k].content = old[k].content
       /\ ed.mediaItems = old[k].media => new[k].media = old[k].media
       /\ ed.analysisResult = loadedAnalysis(old[k]) =>
            /\ new[k].isAnalyzed = old[k].isAnalyzed
            /\ new[k].ai = old[k].ai
            /\ new[k].moodEmoji = old[k].moodEmoji]_vars

(* ---------------------------------------------------------------------- *)
(* Video generation properties                                             *)
(* ---------------------------------------------------------------------- *)
\* C27: video generation retries at most once.  performGeneration runs at
\* most twice; it runs a second time only after the first has failed with
\* an error whose message contains "Requested entity was not found"; any
\* other failure of the first run, and any failure of the second, rejects
\* generateJournalVideo with that error.
C27_RetryAtMostOnce ==
  /\ vid.attempts <= 2
  /\ vid.attempts = 2 => vid.firstError = "notFound"
  /\ vid.firstError \in {"other", "noMessage"} =>
       vid.attempts = 1 /\ vid.result = "rejected" /\ vid.error = vid.firstError
  /\ vid.secondError # "none" =>
       vid.attempts = 2 /\ vid.result = "rejected" /\ vid.error = vid.secondError
  /\ vid.result = "resolved" => vid.secondError = "none"

\* the second run has failed with the matching error as well, and the
\* caller has got that error
C27_Witness ==
  /\ vid.attempts = 2 /\ vid.result = "rejected"
  /\ vid.firstError = "notFound" /\ vid.secondError = "notFound"
  /\ vid.keyDialogs >= 1

(* ---------------------------------------------------------------------- *)
(* Collection properties                                                   *)
(* ---------------------------------------------------------------------- *)
\* C28: getEntries always yields a list.  In every state that saveEntry,
\* deleteEntry and imports of archives with a parseable document lead to,
\* getEntries() returns a list, and no saveEntry or deleteEntry raises.
C28_GetEntriesIsList ==
  /\ getEntries(ls_entries).val.t = "array"
  /\ last.op \in {"saveEntry", "deleteEntry"} => last.res = "ok"

\* C29: unique ids.  From an empty store, whatever saveEntry, deleteEntry,
\* exportFullBackup and importFullBackup of exported archives have been
\* run, no two entries of the persisted collection, and no two entries of
\* an exported document, have the same id.
C29_UniqueIds ==
  /\ \A i, j \in 1..Len(Collection) :
       i # j => Collection[i].id # Collection[j].id
  /\ file.doc.entries.t = "array" =>
       \A i, j \in 1..Len(file.doc.entries.v) :
         i # j => file.doc.entries.v[i].id # file.doc.entries.v[j].id

\* an import has replaced a collection of several entries by the exported
\* one, which shares an id with it
C29_Witness ==
  /\ ImportedExport /\ last.res = "true"
  /\ Len(Collection) >= 2
  /\ LET pre == getEntries(imp.pre.entries).val.v IN
     /\ Len(pre) >= 2
     /\ pre # Collection
     /\ \E i \in 1..Len(pre), j \in 1..Len(Collection) : pre[i].id = Collection[j].id

(* ---------------------------------------------------------------------- *)
(* Database layer properties: a failed open                                *)
(* ---------------------------------------------------------------------- *)
\* C30: a failed open is permanent.  Once the open has failed the rejected
\* promise stays cached: indexedDB.open has been invoked once and is not
\* invoked again, every saveMediaBlob, getMediaBlob and deleteMediaBlob
\* that settles rejects, and the object store does not change.
C30_FailedOpenPermanent ==
  [][dbPromise = "rejected" =>
       /\ opens = 1
       /\ dbPromise' = "rejected"
       /\ opens' = opens
       /\ Len(dbq') < Len(dbq) => dbres'.res = "rejected"
       /\ idb' = idb]_vars

\* after the failed open a call has rejected and a further call is waiting
\* on the same rejected promise
C30_Witness ==
  /\ dbPromise = "rejected" /\ opens = 1
  /\ dbres.res = "rejected"
  /\ dbq # <<>> /\ dbq[1].awaits = 1
====
